---- MODULE Spec2Model ----
(***************************************************************************)
(* gpe_2d_simulation.py: split-step Fourier integration of the 2D          *)
(* Gross-Pitaevskii equation, as a state machine.  One action per          *)
(* statement group of the script; the program counter pc names the next    *)
(* statement to run.                                                       *)
(*                                                                         *)
(* Floating-point numbers are modelled in fixed point: a finite real r is  *)
(* the integer round(r * Scale).  Like IEEE doubles the arithmetic rounds, *)
(* underflows to zero, and has the non-finite values inf and nan, which    *)
(* numpy produces instead of raising (division by zero, sqrt of a negative *)
(* number), and which then propagate.  Signed zeros are not modelled.      *)
(***************************************************************************)
EXTENDS Integers, Sequences, FiniteSets

\* Fixed-point resolution: units per 1.0.
Scale == 1000

\* Largest step count a run is configured with.
MaxSteps == 2

(***************************************************************************)
(* Extended reals (float64)                                                *)
(***************************************************************************)
Fin(n) == [k |-> "fin", v |-> n]
NaN == [k |-> "nan", v |-> 0]
PInf == [k |-> "inf", v |-> 1]
NInf == [k |-> "inf", v |-> -1]
Inf(s) == IF s < 0 THEN NInf ELSE PInf

IsFinite(a) == a.k = "fin"
Sgn(a) == IF a.v > 0 THEN 1 ELSE IF a.v < 0 THEN -1 ELSE 0

\* n / d rounded to the nearest integer (d # 0).
RoundDiv(n, d) ==
    IF d > 0 THEN (2 * n + d) \div (2 * d)
             ELSE (2 * (-n) + (-d)) \div (2 * (-d))

RNeg(a) == IF a.k = "fin" THEN Fin(-a.v)
           ELSE IF a.k = "inf" THEN Inf(-a.v) ELSE NaN

RAdd(a, b) ==
    IF a.k = "nan" \/ b.k = "nan" THEN NaN
    ELSE IF a.k = "inf" /\ b.k = "inf" THEN (IF a.v = b.v THEN a ELSE NaN)
    ELSE IF a.k = "inf" THEN a
    ELSE IF b.k = "inf" THEN b
    ELSE Fin(a.v + b.v)

RSub(a, b) == RAdd(a, RNeg(b))

RMul(a, b) ==
    IF a.k = "nan" \/ b.k = "nan" THEN NaN
    ELSE IF a.k = "inf" \/ b.k = "inf"
         THEN (IF Sgn(a) = 0 \/ Sgn(b) = 0 THEN NaN ELSE Inf(Sgn(a) * Sgn(b)))
    ELSE Fin(RoundDiv(a.v * b.v, Scale))

\* numpy true division: x/0 is inf or nan, never an exception.
RDiv(a, b) ==
    IF a.k = "nan" \/ b.k = "nan" THEN NaN
    ELSE IF a.k = "inf" THEN (IF b.k = "inf" THEN NaN
                              ELSE Inf(a.v * (IF b.v < 0 THEN -1 ELSE 1)))
    ELSE IF b.k = "inf" THEN Fin(0)
    ELSE IF b.v = 0 THEN (IF a.v = 0 THEN NaN ELSE Inf(Sgn(a)))
    ELSE Fin(RoundDiv(a.v * Scale, b.v))

\* Floor of the square root of n >= 0, by bisection on [lo, hi).
RECURSIVE Bisect(_, _, _)
Bisect(n, lo, hi) ==
    IF hi - lo <= 1 THEN lo
    ELSE LET mid == (lo + hi) \div 2
         IN  IF mid * mid <= n THEN Bisect(n, mid, hi) ELSE Bisect(n, lo, mid)

ISqrt(n) ==
    LET f == Bisect(n, 0, 46341)
    IN  IF n - f * f > f THEN f + 1 ELSE f

\* np.sqrt: nan for a negative argument.
RSqrt(a) ==
    IF a.k = "nan" THEN NaN
    ELSE IF a.k = "inf" THEN (IF a.v > 0 THEN PInf ELSE NaN)
    ELSE IF a.v < 0 THEN NaN
    ELSE Fin(ISqrt(a.v * Scale))

\* Sum over k = from..upto of the Taylor terms t_k = t_(k-1) * x / k (and the
\* same stepping by two for sine and cosine), in fixed point.
RECURSIVE Series(_, _, _, _, _)
Series(term, x, k, step, upto) ==
    IF k > upto \/ term = 0 THEN 0
    ELSE LET next == IF step = 1
                     THEN RoundDiv(term * x, k * Scale)
                     ELSE -RoundDiv(RoundDiv(term * x, k * Scale) * x,
                                    (k + 1) * Scale)
         IN  term + Series(next, x, k + step, step, upto)

\* exp(-1) and pi in fixed point.
EInv == RoundDiv(Scale * 367879, 1000000)
Pi == RoundDiv(Scale * 314159, 100000)

RECURSIVE MulPow(_, _, _)
MulPow(v, f, n) == IF n = 0 \/ v = 0 THEN v
                   ELSE MulPow(RoundDiv(v * f, Scale), f, n - 1)

\* exp(v / Scale) for v <= 0: exp(-1)^n * exp(-f), n whole, 0 <= f < 1.
ExpNeg(v) ==
    LET t == -v
        n == t \div Scale
        f == t % Scale
    IN  IF n >= 20 THEN 0 ELSE MulPow(Series(Scale, -f, 1, 1, 12), EInv, n)

RExp(a) ==
    IF a.k = "nan" THEN NaN
    ELSE IF a.k = "inf" THEN (IF a.v > 0 THEN PInf ELSE Fin(0))
    ELSE IF a.v <= 0 THEN Fin(ExpNeg(a.v))
    ELSE IF ExpNeg(-a.v) = 0 THEN PInf
    ELSE Fin(RoundDiv(Scale * Scale, ExpNeg(-a.v)))

\* The angle v reduced to (-pi, pi].
Reduce(v) ==
    LET r == v % (2 * Pi)
    IN  IF r > Pi THEN r - 2 * Pi ELSE r

\* Taylor cosine and sine on [-pi/2, pi/2].
CosT(v) == Series(Scale, v, 1, 2, 13)
SinT(v) == Series(v, v, 2, 2, 14)

CosFix(v) ==
    LET r == Reduce(v)
    IN  IF 2 * r > Pi THEN -CosT(Pi - r)
        ELSE IF 2 * r < -Pi THEN -CosT(-Pi - r)
        ELSE CosT(r)

SinFix(v) ==
    LET r == Reduce(v)
    IN  IF 2 * r > Pi THEN SinT(Pi - r)
        ELSE IF 2 * r < -Pi THEN SinT(-Pi - r)
        ELSE SinT(r)

RCos(a) == IF a.k = "fin" THEN Fin(CosFix(a.v)) ELSE NaN
RSin(a) == IF a.k = "fin" THEN Fin(SinFix(a.v)) ELSE NaN

(***************************************************************************)
(* Complex numbers (complex128) and arrays                                 *)
(***************************************************************************)
Zero == Fin(0)
One == Fin(Scale)
Two == Fin(2 * Scale)
PiR == Fin(Pi)

\* An int converted to float.
FromInt(i) == Fin(i * Scale)

Cx(r, i) == [re |-> r, im |-> i]
CFinite(z) == IsFinite(z.re) /\ IsFinite(z.im)

CAdd(z, w) == Cx(RAdd(z.re, w.re), RAdd(z.im, w.im))

CMul(z, w) == Cx(RSub(RMul(z.re, w.re), RMul(z.im, w.im)),
                 RAdd(RMul(z.re, w.im), RMul(z.im, w.re)))

\* A complex number divided by a real one: componentwise.
CDivR(z, r) == Cx(RDiv(z.re, r), RDiv(z.im, r))

\* np.abs of a complex number: hypot(re, im), which is inf when either part is.
CAbs(z) ==
    IF z.re.k = "inf" \/ z.im.k = "inf" THEN PInf
    ELSE RSqrt(RAdd(RMul(z.re, z.re), RMul(z.im, z.im)))

\* np.abs(z)**2
Abs2(z) == LET m == CAbs(z) IN RMul(m, m)

\* np.exp of a complex number.
CExp(z) == Cx(RMul(RExp(z.re), RCos(z.im)), RMul(RExp(z.re), RSin(z.im)))

\* np.exp(-1j * A * dt / 2) for a real A: -1j * A has real part 0 * A.
PhaseFactor(A, dtt) ==
    CExp(Cx(RDiv(RMul(RMul(Zero, A), dtt), Two),
            RDiv(RMul(RNeg(A), dtt), Two)))

RECURSIVE RSum(_)
RSum(s) == IF s = <<>> THEN Zero ELSE RAdd(Head(s), RSum(Tail(s)))

RECURSIVE CSum(_)
CSum(s) == IF s = <<>> THEN Cx(Zero, Zero) ELSE CAdd(Head(s), CSum(Tail(s)))

Rows(A) == 1..Len(A)
Cols(A) == 1..Len(A[1])

\* np.abs(A)**2, elementwise.
Abs2Field(A) == [i \in Rows(A) |-> [j \in Cols(A) |-> Abs2(A[i][j])]]

\* np.sum over a 2D array.
SumField(A) == RSum([i \in Rows(A) |-> RSum(A[i])])

FieldFinite(A) == \A i \in Rows(A) : \A j \in Cols(A) : CFinite(A[i][j])
RealFieldFinite(A) == \A i \in Rows(A) : \A j \in Cols(A) : IsFinite(A[i][j])

(***************************************************************************)
(* numpy routines                                                          *)
(***************************************************************************)
\* np.linspace(start, stop, num) for num >= 1: num samples, the endpoint
\* included, so the step is (stop - start) / (num - 1).
Linspace(start, stop, num) ==
    LET delta == RSub(stop, start)
        step == IF num > 1 THEN RDiv(delta, FromInt(num - 1)) ELSE delta
    IN  [i \in 1..num |->
            IF num > 1 /\ i = num THEN stop
            ELSE RAdd(RMul(FromInt(i - 1), step), start)]

\* np.fft.fftfreq(num, d) once val = 1.0 / (num * d) is computed: the bins
\* 0, 1, ..., (num-1)//2, -(num//2), ..., -1 times val.
FftFreq(num, val) ==
    [i \in 1..num |->
        RMul(FromInt(IF i - 1 < ((num - 1) \div 2) + 1 THEN i - 1
                     ELSE i - 1 - num), val)]

\* exp(sgn * 2 pi i * m / num)
Twiddle(m, num, sgn) ==
    LET theta == sgn * RoundDiv(2 * Pi * (m % num), num)
    IN  Cx(Fin(CosFix(theta)), Fin(SinFix(theta)))

\* The discrete Fourier transform of a sequence, unnormalised.
Dft(s, sgn) ==
    [q \in 1..Len(s) |->
        CSum([m \in 1..Len(s) |->
                 CMul(s[m], Twiddle((m - 1) * (q - 1), Len(s), sgn))])]

\* The transform along the last axis, then along the first.
Dft2(A, sgn) ==
    LET R == [i \in Rows(A) |-> Dft(A[i], sgn)]
        C == [j \in Cols(A) |-> Dft([i \in Rows(A) |-> R[i][j]], sgn)]
    IN  [i \in Rows(A) |-> [j \in Cols(A) |-> C[j][i]]]

\* np.fft.fft2
Fft2(A) == Dft2(A, -1)

\* np.fft.ifft2: the conjugate transform scaled by 1 / (Nx * Ny).
Ifft2(A) ==
    LET B == Dft2(A, 1)
    IN  [i \in Rows(A) |-> [j \in Cols(A) |->
            CDivR(B[i][j], FromInt(Len(A) * Len(A[1])))]]

(***************************************************************************)
(* The program                                                             *)
(***************************************************************************)
VARIABLES
    Nx, Ny, Lx, Ly, dt, g, V0, a, sigma, steps,   \* the scalar configuration
    dx, dy, x, y, X, Y,                           \* the grid
    V,                                            \* the potential
    psi,                                          \* the wavefunction
    kx, ky, K2,                                   \* the wavenumbers
    n,                                            \* iterations started
    psi_k, norm,                                  \* the loop's working values
    density,                                      \* the output
    pc,                                           \* the next statement
    err                                           \* the exception raised

config == <<Nx, Ny, Lx, Ly, dt, g, V0, a, sigma, steps>>
grid == <<dx, dy, x, y, X, Y>>
spectral == <<kx, ky, K2>>
work == <<psi_k, norm>>
vars == <<config, grid, V, psi, spectral, n, work, density, pc, err>>

\* A name not yet bound.
Unset == [k |-> "unset", v |-> 0]

\* The configurations runs are started with.  The script's own values
\* (Nx = Ny = 256, Lx = Ly = 10.0, dt = 0.0002, steps = 2000) are scaled to
\* what the fixed-point resolution and an exhaustive search can hold.
GridSizes == {-1, 0, 2, 3}
GridSizesY == {-1, 0, 1, 2}
Lengths == {FromInt(-2), FromInt(0), FromInt(2)}
Periods == {FromInt(0), FromInt(2)}
Widths == {FromInt(-1), FromInt(0), Fin(Scale \div 40), FromInt(1)}
Couplings == {FromInt(0), FromInt(1)}
TimeSteps == {Fin(Scale \div 10)}
Depths == {FromInt(10)}

Init ==
    /\ Nx \in GridSizes
    /\ Ny \in GridSizesY
    /\ Lx \in Lengths
    /\ Ly \in Lengths
    /\ dt \in TimeSteps
    /\ g \in Couplings
    /\ V0 \in Depths
    /\ a \in Periods
    /\ sigma \in Widths
    /\ steps \in 0..MaxSteps
    /\ dx = Unset /\ dy = Unset
    /\ x = <<>> /\ y = <<>> /\ X = <<>> /\ Y = <<>>
    /\ V = <<>>
    /\ psi = <<>>
    /\ kx = <<>> /\ ky = <<>> /\ K2 = <<>>
    /\ n = 0
    /\ psi_k = <<>> /\ norm = Unset
    /\ density = <<>>
    /\ pc = "dx"
    /\ err = "none"

\* An uncaught exception ends the script.
Raise(e) == pc' = "error" /\ err' = e

Goto(l) == pc' = l /\ err' = err

\* dx = Lx / Nx: a Python float divided by an int.
GridDx ==
    /\ pc = "dx"
    /\ IF Nx = 0
       THEN Raise("ZeroDivisionError") /\ dx' = dx
       ELSE dx' = RDiv(Lx, FromInt(Nx)) /\ Goto("dy")
    /\ UNCHANGED <<config, dy, x, y, X, Y, V, psi, spectral, n, work, density>>

\* dy = Ly / Ny
GridDy ==
    /\ pc = "dy"
    /\ IF Ny = 0
       THEN Raise("ZeroDivisionError") /\ dy' = dy
       ELSE dy' = RDiv(Ly, FromInt(Ny)) /\ Goto("x")
    /\ UNCHANGED <<config, dx, x, y, X, Y, V, psi, spectral, n, work, density>>

\* x = np.linspace(-Lx/2, Lx/2, Nx)
GridX ==
    /\ pc = "x"
    /\ IF Nx < 0
       THEN Raise("ValueError") /\ x' = x
       ELSE x' = Linspace(RDiv(RNeg(Lx), Two), RDiv(Lx, Two), Nx) /\ Goto("y")
    /\ UNCHANGED <<config, dx, dy, y, X, Y, V, psi, spectral, n, work, density>>

\* y = np.linspace(-Ly/2, Ly/2, Ny)
GridY ==
    /\ pc = "y"
    /\ IF Ny < 0
       THEN Raise("ValueError") /\ y' = y
       ELSE y' = Linspace(RDiv(RNeg(Ly), Two), RDiv(Ly, Two), Ny) /\ Goto("mesh")
    /\ UNCHANGED <<config, dx, dy, x, X, Y, V, psi, spectral, n, work, density>>

\* X, Y = np.meshgrid(x, y, indexing='ij')
Mesh ==
    /\ pc = "mesh"
    /\ X' = [i \in 1..Nx |-> [j \in 1..Ny |-> x[i]]]
    /\ Y' = [i \in 1..Nx |-> [j \in 1..Ny |-> y[j]]]
    /\ Goto("V")
    /\ UNCHANGED <<config, dx, dy, x, y, V, psi, spectral, n, work, density>>

\* np.cos(np.pi * c / a)**2
CosSquared(c, period) ==
    LET w == RCos(RDiv(RMul(PiR, c), period)) IN RMul(w, w)

\* V = V0 * (Vx + Vy)
PotentialField(XX, YY, depth, period) ==
    [i \in Rows(XX) |-> [j \in Cols(XX) |->
        RMul(depth, RAdd(CosSquared(XX[i][j], period),
                         CosSquared(YY[i][j], period)))]]

Potential ==
    /\ pc = "V"
    /\ V' = PotentialField(X, Y, V0, a)
    /\ Goto("gauss")
    /\ UNCHANGED <<config, grid, psi, spectral, n, work, density>>

\* np.exp(-(X**2 + Y**2) / (2 * sigma**2)).astype(np.complex128)
Gaussian(XX, YY, width) ==
    [i \in Rows(XX) |-> [j \in Cols(XX) |->
        Cx(RExp(RDiv(RNeg(RAdd(RMul(XX[i][j], XX[i][j]),
                               RMul(YY[i][j], YY[i][j]))),
                     RMul(Two, RMul(width, width)))),
           Zero)]]

InitGaussian ==
    /\ pc = "gauss"
    /\ psi' = Gaussian(X, Y, sigma)
    /\ Goto("norm0")
    /\ UNCHANGED <<config, grid, V, spectral, n, work, density>>

\* np.sqrt(np.sum(np.abs(p)**2) * dx * dy)
L2Norm(p, ddx, ddy) == RSqrt(RMul(RMul(SumField(Abs2Field(p)), ddx), ddy))

\* p / r, elementwise
Scaled(p, r) == [i \in Rows(p) |-> [j \in Cols(p) |-> CDivR(p[i][j], r)]]

\* psi /= np.sqrt(np.sum(np.abs(psi)**2) * dx * dy)
InitNormalize ==
    /\ pc = "norm0"
    /\ psi' = Scaled(psi, L2Norm(psi, dx, dy))
    /\ Goto("kx")
    /\ UNCHANGED <<config, grid, V, spectral, n, work, density>>

\* 2 * np.pi * np.fft.fftfreq(num, d=d), given num * d # 0
Wavenumbers(num, d) ==
    LET f == FftFreq(num, RDiv(One, RMul(FromInt(num), d)))
    IN  [i \in 1..num |-> RMul(RMul(Two, PiR), f[i])]

\* kx = 2 * np.pi * np.fft.fftfreq(Nx, d=dx): fftfreq computes 1.0 / (n * d)
\* on Python numbers.
WavenumbersX ==
    /\ pc = "kx"
    /\ IF RMul(FromInt(Nx), dx) = Zero
       THEN Raise("ZeroDivisionError") /\ kx' = kx
       ELSE kx' = Wavenumbers(Nx, dx) /\ Goto("ky")
    /\ UNCHANGED <<config, grid, V, psi, ky, K2, n, work, density>>

\* ky = 2 * np.pi * np.fft.fftfreq(Ny, d=dy)
WavenumbersY ==
    /\ pc = "ky"
    /\ IF RMul(FromInt(Ny), dy) = Zero
       THEN Raise("ZeroDivisionError") /\ ky' = ky
       ELSE ky' = Wavenumbers(Ny, dy) /\ Goto("K2")
    /\ UNCHANGED <<config, grid, V, psi, kx, K2, n, work, density>>

\* KX, KY = np.meshgrid(kx, ky, indexing='ij'); K2 = KX**2 + KY**2
WavenumberMesh ==
    /\ pc = "K2"
    /\ K2' = [i \in 1..Nx |-> [j \in 1..Ny |->
                 RAdd(RMul(kx[i], kx[i]), RMul(ky[j], ky[j]))]]
    /\ Goto("loop")
    /\ UNCHANGED <<config, grid, V, psi, kx, ky, n, work, density>>

\* A loop that stops after its first iteration (a stray break).
LoopTestEarlyExit ==
    /\ pc = "loop"
    /\ IF n < steps /\ n < 1
       THEN n' = n + 1 /\ Goto("half1")
       ELSE n' = n /\ Goto("density")
    /\ UNCHANGED <<config, grid, V, psi, spectral, work, density>>

\* A loop over range(steps + 1).
LoopTestOffByOne ==
    /\ pc = "loop"
    /\ IF n <= steps
       THEN n' = n + 1 /\ Goto("half1")
       ELSE n' = n /\ Goto("density")
    /\ UNCHANGED <<config, grid, V, psi, spectral, work, density>>

\* for _ in range(steps): the next iteration, or the end of the loop.
LoopTest ==
    /\ pc = "loop"
    /\ IF n < steps
       THEN n' = n + 1 /\ Goto("half1")
       ELSE n' = n /\ Goto("density")
    /\ UNCHANGED <<config, grid, V, psi, spectral, work, density>>

\* The half-step taken over the whole dt: the two half-steps fused into one.
NonlinearFullStep(p, pot, coupling, dtt) ==
    [i \in Rows(p) |-> [j \in Cols(p) |->
        CMul(p[i][j],
             PhaseFactor(RAdd(pot[i][j], RMul(coupling, Abs2(p[i][j]))),
                         RMul(Two, dtt)))]]

\* p * np.exp(-1j * (V + g * np.abs(p)**2) * dt / 2)
NonlinearHalfStep(p, pot, coupling, dtt) ==
    [i \in Rows(p) |-> [j \in Cols(p) |->
        CMul(p[i][j],
             PhaseFactor(RAdd(pot[i][j], RMul(coupling, Abs2(p[i][j]))), dtt))]]

\* 5a) psi *= np.exp(-1j * (V + g * np.abs(psi)**2) * dt / 2)
HalfStep1 ==
    /\ pc = "half1"
    /\ psi' = NonlinearHalfStep(psi, V, g, dt)
    /\ Goto("fft")
    /\ UNCHANGED <<config, grid, V, spectral, n, work, density>>

\* 5b) psi_k = np.fft.fft2(psi)
ForwardTransform ==
    /\ pc = "fft"
    /\ psi_k' = Fft2(psi)
    /\ Goto("kmul")
    /\ UNCHANGED <<config, grid, V, psi, spectral, n, norm, density>>

\* pk * np.exp(-1j * K2 * dt / 2)
KineticPhase(pk, ksq, dtt) ==
    [i \in Rows(pk) |-> [j \in Cols(pk) |->
        CMul(pk[i][j], PhaseFactor(ksq[i][j], dtt))]]

\* psi_k *= np.exp(-1j * K2 * dt / 2)
KineticMultiply ==
    /\ pc = "kmul"
    /\ psi_k' = KineticPhase(psi_k, K2, dt)
    /\ Goto("ifft")
    /\ UNCHANGED <<config, grid, V, psi, spectral, n, norm, density>>

\* psi = np.fft.ifft2(psi_k)
InverseTransform ==
    /\ pc = "ifft"
    /\ psi' = Ifft2(psi_k)
    /\ Goto("half2")
    /\ UNCHANGED <<config, grid, V, spectral, n, work, density>>

\* The second half-step going straight back to the loop header: an
\* iteration without its renormalisation.
HalfStep2SkipRenormalize ==
    /\ pc = "half2"
    /\ psi' = NonlinearHalfStep(psi, V, g, dt)
    /\ Goto("loop")
    /\ UNCHANGED <<config, grid, V, spectral, n, work, density>>

\* 5c) psi *= np.exp(-1j * (V + g * np.abs(psi)**2) * dt / 2)
HalfStep2 ==
    /\ pc = "half2"
    /\ psi' = NonlinearHalfStep(psi, V, g, dt)
    /\ Goto("norm")
    /\ UNCHANGED <<config, grid, V, spectral, n, work, density>>

\* 5d) norm = np.sqrt(np.sum(np.abs(psi)**2) * dx * dy)
ComputeNorm ==
    /\ pc = "norm"
    /\ norm' = L2Norm(psi, dx, dy)
    /\ Goto("renorm")
    /\ UNCHANGED <<config, grid, V, psi, spectral, n, psi_k, density>>

\* psi /= norm
Renormalize ==
    /\ pc = "renorm"
    /\ psi' = Scaled(psi, norm)
    /\ Goto("loop")
    /\ UNCHANGED <<config, grid, V, spectral, n, work, density>>

\* The density written over psi: psi = np.abs(psi)**2.
ComputeDensityInPlace ==
    /\ pc = "density"
    /\ psi' = [i \in Rows(psi) |-> [j \in Cols(psi) |->
                  Cx(Abs2(psi[i][j]), Zero)]]
    /\ density' = psi'
    /\ Goto("done")
    /\ UNCHANGED <<config, grid, V, spectral, n, work>>

\* 6) density = np.abs(psi)**2
ComputeDensity ==
    /\ pc = "density"
    /\ density' = Abs2Field(psi)
    /\ Goto("done")
    /\ UNCHANGED <<config, grid, V, psi, spectral, n, work>>

Next ==
    \/ GridDx \/ GridDy \/ GridX \/ GridY \/ Mesh
    \/ Potential
    \/ InitGaussian \/ InitNormalize
    \/ WavenumbersX \/ WavenumbersY \/ WavenumberMesh
    \/ LoopTest
    \/ HalfStep1 \/ ForwardTransform \/ KineticMultiply \/ InverseTransform
    \/ HalfStep2 \/ ComputeNorm \/ Renormalize
    \/ ComputeDensity

Spec == Init /\ [][Next]_vars

(***************************************************************************)
(* Reference definitions used by the properties                            *)
(***************************************************************************)
SetupLabels == {"dx", "dy", "x", "y", "mesh", "V", "gauss", "norm0",
                "kx", "ky", "K2"}
BodyLabels == {"half1", "fft", "kmul", "ifft", "half2", "norm", "renorm"}

\* The loop header between iterations, and everything after the loop.
StepBoundary == pc \in {"loop", "density", "done"}

\* What sections 4.1 to 4.3 of the specification call a valid configuration.
ValidGrid == Nx > 0 /\ Ny > 0 /\ Lx.v > 0 /\ Ly.v > 0
ValidShape == a.v # 0 /\ sigma.v > 0
ValidConfiguration == ValidGrid /\ ValidShape

\* sum(|p|^2) * dx * dy
Mass(p) == RMul(RMul(SumField(Abs2Field(p)), dx), dy)

\* Equal to 1 up to the rounding of the arithmetic (half a percent).
UnitMass(p) ==
    /\ IsFinite(Mass(p))
    /\ Mass(p).v >= Scale - Scale \div 200
    /\ Mass(p).v <= Scale + Scale \div 200

\* Lines 34-35 as a function of the grid: the normalised initial Gaussian.
InitialPsi ==
    LET G == Gaussian(X, Y, sigma) IN Scaled(G, L2Norm(G, dx, dy))

\* Lines 46-58 as a function: one full iteration applied to p.
FullStep(p) ==
    LET h1 == NonlinearHalfStep(p, V, g, dt)
        kin == Ifft2(KineticPhase(Fft2(h1), K2, dt))
        h2 == NonlinearHalfStep(kin, V, g, dt)
    IN  Scaled(h2, L2Norm(h2, dx, dy))

\* Lines 44-58 as a function: m iterations applied to p.
RECURSIVE Propagate(_, _)
Propagate(p, m) == IF m = 0 THEN p ELSE Propagate(FullStep(p), m - 1)

\* The position of a statement within its section of the script.
Rank(l) ==
    CASE l = "dx" -> 11 [] l = "dy" -> 10 [] l = "x" -> 9 [] l = "y" -> 8
      [] l = "mesh" -> 7 [] l = "V" -> 6 [] l = "gauss" -> 5
      [] l = "norm0" -> 4 [] l = "kx" -> 3 [] l = "ky" -> 2 [] l = "K2" -> 1
      [] l = "loop" -> 0
      [] l = "half1" -> 7 [] l = "fft" -> 6 [] l = "kmul" -> 5
      [] l = "ifft" -> 4 [] l = "half2" -> 3 [] l = "norm" -> 2
      [] l = "renorm" -> 1
      [] l = "density" -> 0 [] l = "done" -> 0 [] l = "error" -> 0

\* The number of statements a run at this point has still to execute.
StatementsLeft ==
    CASE pc \in SetupLabels -> Rank(pc) + 8 * steps + 2
      [] pc = "loop" -> 8 * (steps - n) + 2
      [] pc \in BodyLabels -> Rank(pc) + 8 * (steps - n) + 2
      [] pc = "density" -> 1
      [] OTHER -> 0

\* Whenever the field is finite at a step boundary it has unit mass: the
\* rounding of the model's arithmetic alone never breaks the normalisation.
NormalizedWhenFinite == StepBoundary /\ FieldFinite(psi) => UnitMass(psi)

(***************************************************************************)
(* C1                                                                      *)
(***************************************************************************)
\* C1: at every step boundary t in 0..steps of a run with a valid
\* configuration (after initialisation for t = 0, after the renormalisation
\* ending each iteration for t >= 1), sum(|psi|^2) * dx * dy = 1.
C1_NormalizationInvariant ==
    ValidConfiguration /\ StepBoundary => UnitMass(psi)

(***************************************************************************)
(* C2                                                                      *)
(***************************************************************************)
\* C2: with Nx <= 0, Ny <= 0, Lx <= 0 or Ly <= 0 (a and sigma being valid)
\* the run fails during setup: no iteration of the time loop is attempted
\* and no density is produced.  Any exception raised in setup is counted as
\* the failure the claim asks for.
C2_InvalidGridFailsInSetup ==
    ValidShape /\ ~ValidGrid =>
        /\ pc \notin BodyLabels \cup {"density", "done"}
        /\ density = <<>>

(***************************************************************************)
(* C3                                                                      *)
(***************************************************************************)
\* C3: once the time loop has started, a zero or non-finite normalisation
\* divisor or a non-finite psi aborts the run: no further iteration starts
\* from a non-finite field and no non-finite density is ever output.
C3_InstabilityAborts ==
    ValidConfiguration /\ n >= 1 =>
        /\ (pc \in {"loop", "density", "done"} => FieldFinite(psi))
        /\ (pc = "renorm" => IsFinite(norm) /\ norm.v # 0)
        /\ (pc = "done" => RealFieldFinite(density))

(***************************************************************************)
(* C4                                                                      *)
(***************************************************************************)
\* C4: the loop runs exactly `steps` iterations, with no early exit: the
\* counter never passes steps, the loop is left only with n = steps, no
\* exception is raised once the loop has begun, the terminal psi is the
\* function of the configuration obtained by applying the iteration steps
\* times to the initial field, the density is computed only after the loop,
\* from that terminal psi, and every step brings the run closer to its end
\* (the statements left to run strictly decrease, so the run terminates).
C4_FixedIterationCount ==
    /\ [](/\ n >= 0 /\ n <= steps
          /\ (pc \in {"density", "done"} => n = steps)
          /\ (pc = "error" => n = 0)
          /\ (density # <<>> => pc = "done")
          /\ (pc = "done" =>
                 /\ psi = Propagate(InitialPsi, steps)
                 /\ density = Abs2Field(psi)))
    /\ [][StatementsLeft' < StatementsLeft]_vars

\* Two full iterations have run to the end with a finite field.
C4_Witness ==
    pc = "done" /\ steps >= 2 /\ n = steps /\ FieldFinite(psi)

(***************************************************************************)
(* C5                                                                      *)
(***************************************************************************)
\* C5: every iteration runs half-step, forward transform, spectral
\* multiply, inverse transform, half-step, renormalisation, in this order;
\* an iteration begins only at the loop header, and the loop header is
\* reached again only through the renormalisation, which divides psi by the
\* norm of the psi the second half-step produced.
C5_SubstepOrder ==
    [][ /\ (pc = "half1" => pc' = "fft")
        /\ (pc = "fft" => pc' = "kmul" /\ psi_k' = Fft2(psi))
        /\ (pc = "kmul" => pc' = "ifft" /\ psi_k' = KineticPhase(psi_k, K2, dt))
        /\ (pc = "ifft" => pc' = "half2" /\ psi' = Ifft2(psi_k))
        /\ (pc = "half2" => pc' = "norm")
        /\ (pc = "norm" => pc' = "renorm" /\ norm' = L2Norm(psi, dx, dy)
                           /\ psi' = psi)
        /\ (pc = "renorm" => pc' = "loop" /\ norm = L2Norm(psi, dx, dy)
                             /\ psi' = Scaled(psi, norm))
        /\ (pc' = "half1" => pc = "loop" /\ n' = n + 1)
        /\ (pc' = "loop" => pc \in {"K2", "renorm"})
        /\ (pc' \in BodyLabels \ {"half1"} => pc \in BodyLabels /\ n' = n)
      ]_vars

\* The second iteration's renormalisation has been applied, with a finite
\* positive divisor.
C5_Witness ==
    pc = "loop" /\ n = 2 /\ IsFinite(norm) /\ norm.v > 0 /\ FieldFinite(psi)

(***************************************************************************)
(* C6                                                                      *)
(***************************************************************************)
\* C6: with steps = 0 the loop body never runs (no body statement is
\* reached, the working values stay unbound) and the output density is
\* |psi0|^2 for the normalised initial Gaussian psi0.
C6_ZeroStepIdempotence ==
    steps = 0 =>
        /\ pc \notin BodyLabels
        /\ n = 0 /\ psi_k = <<>> /\ norm = Unset
        /\ (pc = "done" => density = Abs2Field(InitialPsi))

\* A zero-step run has output a finite, non-zero density.
C6_Witness ==
    /\ steps = 0 /\ pc = "done"
    /\ RealFieldFinite(density)
    /\ \E i \in Rows(density) : \E j \in Cols(density) : density[i][j].v > 0

(***************************************************************************)
(* C7                                                                      *)
(***************************************************************************)
\* C7: for a valid configuration, x starts at -Lx/2, neighbours are
\* dx = Lx/Nx apart (up to one unit of rounding) and +Lx/2 is not a grid
\* point; likewise y.
C7_HalfOpenUniformGrid ==
    ValidConfiguration /\ x # <<>> /\ y # <<>> =>
        /\ x[1] = RDiv(RNeg(Lx), Two)
        /\ y[1] = RDiv(RNeg(Ly), Two)
        /\ \A i \in 1..(Nx - 1) :
               x[i + 1].v - x[i].v \in (dx.v - 1)..(dx.v + 1)
        /\ \A j \in 1..(Ny - 1) :
               y[j + 1].v - y[j].v \in (dy.v - 1)..(dy.v + 1)
        /\ \A i \in 1..Nx : x[i] # RDiv(Lx, Two)
        /\ \A j \in 1..Ny : y[j] # RDiv(Ly, Two)

(***************************************************************************)
(* C8                                                                      *)
(***************************************************************************)
\* C8: on a valid grid, with a = 0 the potential is never built, with
\* sigma <= 0 the initial psi is never built, and in both cases the run never
\* reaches the loop body nor the density.  Any exception raised in setup is
\* counted as the failure the claim asks for.
C8_InvalidShapeFailsInSetup ==
    ValidGrid =>
        /\ (a.v = 0 => V = <<>>)
        /\ (sigma.v <= 0 => psi = <<>>)
        /\ (~ValidShape => pc \notin BodyLabels \cup {"density", "done"})

(***************************************************************************)
(* C9                                                                      *)
(***************************************************************************)
\* C9: both half-steps multiply every psi[i][j] by
\* exp(-1j * (V[i][j] + g * |psi[i][j]|^2) * dt / 2) with |psi|^2 taken from
\* the psi held when the half-step runs: at the first half-step the psi of
\* the loop header, at the second the psi the inverse transform has just
\* produced from this iteration's psi_k.
C9_HalfStepsUseCurrentDensity ==
    [][ /\ (pc = "loop" /\ pc' = "half1" => psi' = psi)
        /\ (pc \in {"half1", "half2"} =>
               psi' = [i \in 1..Nx |-> [j \in 1..Ny |->
                          CMul(psi[i][j],
                               PhaseFactor(RAdd(V[i][j],
                                                RMul(g, Abs2(psi[i][j]))),
                                           dt))]])
        /\ (pc = "half2" => psi = Ifft2(psi_k))
        /\ (pc \in {"fft", "kmul"} => psi' = psi)
      ]_vars

\* The second half-step of the first iteration has run with g # 0 on a
\* field whose density the kinetic step had changed by more than rounding.
C9_Witness ==
    /\ pc = "norm" /\ n = 1 /\ g.v # 0 /\ FieldFinite(psi)
    /\ \E i \in 1..Nx : \E j \in 1..Ny :
           LET d0 == Abs2(InitialPsi[i][j]).v
               d1 == Abs2(Ifft2(psi_k)[i][j]).v
           IN  d1 - d0 > Scale \div 50 \/ d0 - d1 > Scale \div 50

(***************************************************************************)
(* C10                                                                     *)
(***************************************************************************)
\* C10: from the loop header on, no step changes the configuration, the
\* grid, V or the wavenumber tables; the loop changes only psi, psi_k, norm
\* and its counter; computing the density changes only the density.
C10_OnlyPsiEvolves ==
    [][ (pc \in BodyLabels \cup {"loop", "density"}) =>
          /\ UNCHANGED <<config, grid, V, spectral>>
          /\ (pc # "density" => density' = density)
          /\ (pc = "density" => UNCHANGED <<psi, n, work>>)
      ]_vars

\* A run of at least one iteration has output its density, with the tables
\* built.
C10_Witness ==
    pc = "done" /\ n >= 1 /\ V # <<>> /\ K2 # <<>> /\ density # <<>>
====
